---- MODULE Spec2Model ----
(***************************************************************************)
(* Model of the external-memory JSONL merger, merge_jsonl_mem_safe.py:     *)
(* the value codec (serialize_value, deserialize_value, hash_value), the   *)
(* two SQLite tables (merge_keys, field_values), the ingest loop of        *)
(* stream_merge_jsonl_optimized with process_document and its batch        *)
(* buffer, and export_merged_data.                                         *)
(*                                                                         *)
(* Text is a sequence of character codes, so that the byte order SQLite    *)
(* uses for ORDER BY (BINARY collation) can be computed.  A JSON value is  *)
(* a record [t, v]: t is the type tag and v the payload.  An object keeps  *)
(* its pairs in insertion order, as a Python dict does.                    *)
(***************************************************************************)
EXTENDS Integers, Sequences, FiniteSets, TLC

(***************************************************************************)
(* Bounds of the model.                                                    *)
(***************************************************************************)
MaxLines == 3
MaxBatchSize == 2

(***************************************************************************)
(* JSON values as json.loads builds them.                                  *)
(***************************************************************************)
JNull == [t |-> "null", v |-> <<>>]
JStr(s) == [t |-> "str", v |-> s]
JNum(n) == [t |-> "num", v |-> n]
JArr(items) == [t |-> "arr", v |-> items]
JObj(pairs) == [t |-> "obj", v |-> pairs]

\* A lookup that takes a null value for an absent key, as doc.get(name) would.
HasKey_NotNone(doc, name) ==
    \E i \in 1..Len(doc.v) : doc.v[i][1] = name /\ doc.v[i][2] # JNull

\* Python's `name in doc` for a dict.
HasKey(doc, name) == \E i \in 1..Len(doc.v) : doc.v[i][1] = name

\* Python's doc[name] for a dict that has the key.
GetKey(doc, name) == doc.v[CHOOSE i \in 1..Len(doc.v) : doc.v[i][1] = name][2]

\* Python's doc[name] = value: replaces in place or appends at the end.
SetKey(doc, name, value) ==
    IF HasKey(doc, name)
    THEN JObj([i \in 1..Len(doc.v) |->
                 IF doc.v[i][1] = name THEN <<name, value>> ELSE doc.v[i]])
    ELSE JObj(Append(doc.v, <<name, value>>))

\* Python's == on JSON values: dicts compare by content, not by key order.
RECURSIVE PyEq(_, _)
PyEq(a, b) ==
    IF a.t # b.t THEN FALSE
    ELSE IF a.t = "arr"
    THEN /\ Len(a.v) = Len(b.v)
         /\ \A i \in 1..Len(a.v) : PyEq(a.v[i], b.v[i])
    ELSE IF a.t = "obj"
    THEN /\ Len(a.v) = Len(b.v)
         /\ \A i \in 1..Len(a.v) :
               /\ HasKey(b, a.v[i][1])
               /\ PyEq(a.v[i][2], GetKey(b, a.v[i][1]))
    ELSE a.v = b.v

(***************************************************************************)
(* Byte order of text: the order of str comparison in Python and of the    *)
(* BINARY collation in SQLite (the encodings are ASCII).                   *)
(***************************************************************************)
LexLess(a, b) ==
    \E i \in 1..(Len(a) + 1) :
        /\ i <= Len(b)
        /\ \A j \in 1..(i - 1) : a[j] = b[j]
        /\ (i = Len(a) + 1 \/ a[i] < b[i])

\* The elements of a finite set of texts in ascending byte order.
RECURSIVE SortTexts(_)
SortTexts(S) ==
    IF S = {} THEN <<>>
    ELSE LET m == CHOOSE x \in S : \A y \in S \ {x} : LexLess(x, y)
         IN  <<m>> \o SortTexts(S \ {m})

(***************************************************************************)
(* serialize_value: json.dumps(value, sort_keys=True,                      *)
(* separators=(',', ':')).                                                 *)
(***************************************************************************)
RECURSIVE DigitsOf(_)
DigitsOf(n) ==
    IF n < 10 THEN <<48 + n>> ELSE DigitsOf(n \div 10) \o <<48 + (n % 10)>>

\* Variant of SortedPairs: json.dumps without sort_keys keeps the key order
\* of the value at hand.
SortedPairs_AsGiven(pairs) == pairs

\* The pairs of an object in ascending key order (sort_keys=True).
SortedPairs(pairs) ==
    LET keys == SortTexts({pairs[i][1] : i \in 1..Len(pairs)})
    IN  [k \in 1..Len(keys) |->
            pairs[CHOOSE i \in 1..Len(pairs) : pairs[i][1] = keys[k]]]

RECURSIVE serialize_value(_)
RECURSIVE DumpItems(_, _)
RECURSIVE DumpPairs(_, _)
\* The items of an array from index i on, joined by ','.
DumpItems(items, i) ==
    IF i > Len(items) THEN <<>>
    ELSE (IF i > 1 THEN <<44>> ELSE <<>>)
         \o serialize_value(items[i]) \o DumpItems(items, i + 1)

\* The pairs of an object from index i on, as "key":value joined by ','.
DumpPairs(pairs, i) ==
    IF i > Len(pairs) THEN <<>>
    ELSE (IF i > 1 THEN <<44>> ELSE <<>>)
         \o <<34>> \o pairs[i][1] \o <<34, 58>>
         \o serialize_value(pairs[i][2]) \o DumpPairs(pairs, i + 1)

serialize_value(value) ==
    CASE value.t = "null" -> <<110, 117, 108, 108>>
      [] value.t = "num"  -> DigitsOf(value.v)
      [] value.t = "str"  -> <<34>> \o value.v \o <<34>>
      [] value.t = "arr"  -> <<91>> \o DumpItems(value.v, 1) \o <<93>>
      [] value.t = "obj"  -> <<123>> \o DumpPairs(SortedPairs(value.v), 1) \o <<125>>

(***************************************************************************)
(* deserialize_value: json.loads(value_str).  Each parser takes the text   *)
(* and a position and returns the value and the position after it.         *)
(***************************************************************************)
IsDigit(c) == c >= 48 /\ c <= 57

RECURSIVE ParseDigits(_, _, _)
ParseDigits(s, i, acc) ==
    IF i <= Len(s) /\ IsDigit(s[i])
    THEN ParseDigits(s, i + 1, acc * 10 + (s[i] - 48))
    ELSE [val |-> JNum(acc), pos |-> i]

\* The position of the closing quote of the string that opens before i.
RECURSIVE ClosingQuote(_, _)
ClosingQuote(s, i) == IF s[i] = 34 THEN i ELSE ClosingQuote(s, i + 1)

ParseText(s, i) ==
    LET q == ClosingQuote(s, i + 1)
    IN  [val |-> SubSeq(s, i + 1, q - 1), pos |-> q + 1]

RECURSIVE ParseValue(_, _)
RECURSIVE ParseItems(_, _, _)
RECURSIVE ParsePairs(_, _, _)
\* Array items from position i, after '[' or ','; acc holds the items so far.
ParseItems(s, i, acc) ==
    LET r == ParseValue(s, i)
        items == Append(acc, r.val)
    IN  IF s[r.pos] = 44
        THEN ParseItems(s, r.pos + 1, items)
        ELSE [val |-> JArr(items), pos |-> r.pos + 1]

\* Object pairs from position i, after '{' or ','; a repeated key replaces.
ParsePairs(s, i, acc) ==
    LET k == ParseText(s, i)
        r == ParseValue(s, k.pos + 1)
        obj == SetKey(acc, k.val, r.val)
    IN  IF s[r.pos] = 44
        THEN ParsePairs(s, r.pos + 1, obj)
        ELSE [val |-> obj, pos |-> r.pos + 1]

ParseValue(s, i) ==
    CASE s[i] = 110 -> [val |-> JNull, pos |-> i + 4]
      [] IsDigit(s[i]) -> ParseDigits(s, i, 0)
      [] s[i] = 34 -> LET r == ParseText(s, i)
                      IN  [val |-> JStr(r.val), pos |-> r.pos]
      [] s[i] = 91 -> IF s[i + 1] = 93
                      THEN [val |-> JArr(<<>>), pos |-> i + 2]
                      ELSE ParseItems(s, i + 1, <<>>)
      [] s[i] = 123 -> IF s[i + 1] = 125
                       THEN [val |-> JObj(<<>>), pos |-> i + 2]
                       ELSE ParsePairs(s, i + 1, JObj(<<>>))

deserialize_value(value_str) == ParseValue(value_str, 1).val

(***************************************************************************)
(* hash_value: the SHA-256 hex digest of the serialized value.  The digest *)
(* is modelled by a fixed-width polynomial digest of the text.  It has no  *)
(* collision among the values of the input sources, except for the pair of *)
(* strings that the source with colliding values delivers.                 *)
(***************************************************************************)
DigestMod == 1000003

RECURSIVE Digest(_, _)
Digest(s, n) ==
    IF n = 0 THEN 7 ELSE (Digest(s, n - 1) * 131 + s[n]) % DigestMod

sha256(s) == Digest(s, Len(s))

hash_value(value) == sha256(serialize_value(value))

(***************************************************************************)
(* The texts of the model: field names and string values.                  *)
(***************************************************************************)
\* "id"
fId == <<105, 100>>
\* "name"
fName == <<110, 97, 109, 101>>
\* "role"
fRole == <<114, 111, 108, 101>>
\* "tags"
fTags == <<116, 97, 103, 115>>
\* "A", "B", "k1"
sA == <<65>>
sB == <<66>>
sK1 == <<107, 49>>
\* "Alice", "Bob", "Eve"
sAlice == <<65, 108, 105, 99, 101>>
sBob == <<66, 111, 98>>
sEve == <<69, 118, 101>>
\* "admin", "editor"
sAdmin == <<97, 100, 109, 105, 110>>
sEditor == <<101, 100, 105, 116, 111, 114>>
\* "a", "b", "c"
sa == <<97>>
sb == <<98>>
sc == <<99>>

(***************************************************************************)
(* The input lines the reader can deliver.  A line is blank (empty after   *)
(* strip), invalid (json.loads raises JSONDecodeError) or the text of a    *)
(* JSON object, given by the value json.loads returns for it.  A line of   *)
(* kind "value" is the text of a JSON value that is not an object.         *)
(***************************************************************************)
BlankLine == [kind |-> "blank", doc |-> JNull]
InvalidLine == [kind |-> "invalid", doc |-> JNull]
JsonLine(doc) == [kind |-> "json", doc |-> doc]
ValueLine(value) == [kind |-> "value", doc |-> value]

\* {"id":"A","name":"Alice","role":"admin"}
DocA1 == JObj(<< <<fId, JStr(sA)>>, <<fName, JStr(sAlice)>>, <<fRole, JStr(sAdmin)>> >>)
\* {"id":"A","name":"Alice","role":"editor"}
DocA2 == JObj(<< <<fId, JStr(sA)>>, <<fName, JStr(sAlice)>>, <<fRole, JStr(sEditor)>> >>)
\* {"id":"B","name":"Bob"}
DocB == JObj(<< <<fId, JStr(sB)>>, <<fName, JStr(sBob)>> >>)
\* {"id":"B"}
DocBOnly == JObj(<< <<fId, JStr(sB)>> >>)
\* {"id":"k1","tags":["a","b"]}
DocT1 == JObj(<< <<fId, JStr(sK1)>>, <<fTags, JArr(<<JStr(sa), JStr(sb)>>)>> >>)
\* {"tags":["b","c"],"id":"k1"}
DocT2 == JObj(<< <<fTags, JArr(<<JStr(sb), JStr(sc)>>)>>, <<fId, JStr(sK1)>> >>)
\* {"name":"Eve","role":"admin"}: no merge key
DocNoKey == JObj(<< <<fName, JStr(sEve)>>, <<fRole, JStr(sAdmin)>> >>)
\* {"id":{"a":1,"b":2},"name":"Bob"}
DocO1 == JObj(<< <<fId, JObj(<< <<sa, JNum(1)>>, <<sb, JNum(2)>> >>)>>, <<fName, JStr(sBob)>> >>)
\* {"id":{"b":2,"a":1},"role":"admin"}
DocO2 == JObj(<< <<fId, JObj(<< <<sb, JNum(2)>>, <<sa, JNum(1)>> >>)>>, <<fRole, JStr(sAdmin)>> >>)

Docs == {DocA1, DocA2, DocB, DocBOnly, DocT1, DocT2, DocNoKey, DocO1, DocO2}

Lines == {BlankLine, InvalidLine} \cup {JsonLine(d) : d \in Docs}

\* --key: the name of the top-level field to merge on.
merge_key_field == fId

\* --progress-interval: a progress message every so many accepted lines.
progress_interval == 2

(***************************************************************************)
(* State of one run of stream_merge_jsonl_optimized.                       *)
(***************************************************************************)
VARIABLES
    pc,               \* position in stream_merge_jsonl_optimized
    batch_size,       \* --batch-size
    input,            \* the lines read from the input stream so far
    merge_keys,       \* rows (merge_key, key_value) of table merge_keys
    field_values,     \* rows (merge_key, field_name, value_hash, value_data)
    batch_data,       \* the pending batch buffer
    batch_peak,       \* longest batch_data seen at the flush test of process_document
    processed_lines,  \* number of accepted lines
    diag,             \* messages written to stderr: <<category, line or count>>
    output,           \* the documents written to the output stream
    input_stream,     \* "None", or the input file: "open" or "closed"
    output_stream,    \* "None", or the output file: "open" or "closed"
    conn,             \* the connection to the temp database: "None", "open", "closed"
    tmp_db,           \* os.path.exists(tmp_db); the tables are its content
    nvd_pc,           \* position in the script nvd_collection.py
    offset,           \* startIndex of the next request
    retries,          \* failed attempts of the page at hand
    more_data,        \* the flag of the outer loop
    total_results,    \* totalResults of the first page that reported one
    file,             \* the records written to OUT_FILE: chunks <<first, last>>
    request_log       \* the startIndex of every request made so far

\* The handles of a run of the merger, and the state of the collector.
streams == <<input_stream, output_stream, conn, tmp_db>>
nvd_vars == <<nvd_pc, offset, retries, more_data, total_results, file, request_log>>

vars == <<pc, batch_size, input, merge_keys, field_values, batch_data,
          batch_peak, processed_lines, diag, output, streams, nvd_vars>>

(***************************************************************************)
(* The two tables.  A table is the sequence of its rows in rowid order.    *)
(***************************************************************************)
\* INSERT OR REPLACE INTO merge_keys: a row with the same primary key
\* (merge_key) is deleted, then the new row is inserted.
InsertOrReplaceKey(table, row) ==
    SelectSeq(table, LAMBDA r : r[1] # row[1]) \o <<row>>

\* Variant of InsertOrIgnore: a plain INSERT into a table without the
\* primary key, so an equal row is stored again.
InsertOrIgnore_NoPrimaryKey(table, row) == Append(table, row)

\* Variant of InsertOrIgnore: INSERT OR REPLACE with the primary key
\* (merge_key, field_name), so a new value replaces the earlier ones.
InsertOrIgnore_ReplaceField(table, row) ==
    SelectSeq(table, LAMBDA r : ~(r[1] = row[1] /\ r[2] = row[2])) \o <<row>>

\* Variant of InsertOrIgnore: the hash is an index only and value_data is
\* compared, so a row is dropped when its encoding is stored already.
InsertOrIgnore_CompareData(table, row) ==
    IF \E i \in 1..Len(table) :
          /\ table[i][1] = row[1]
          /\ table[i][2] = row[2]
          /\ table[i][4] = row[4]
    THEN table
    ELSE Append(table, row)

\* INSERT OR IGNORE INTO field_values of one row: the row is dropped when a
\* row with the same primary key (merge_key, field_name, value_hash) exists.
InsertOrIgnore(table, row) ==
    IF \E i \in 1..Len(table) :
          /\ table[i][1] = row[1]
          /\ table[i][2] = row[2]
          /\ table[i][3] = row[3]
    THEN table
    ELSE Append(table, row)

\* executemany over the batch, row after row; an empty batch returns at once.
RECURSIVE insert_field_values_batch(_, _)
insert_field_values_batch(table, batch) ==
    IF batch = <<>> THEN table
    ELSE insert_field_values_batch(InsertOrIgnore(table, Head(batch)), Tail(batch))

\* The strict order of ORDER BY over the text columns cols, compared in turn.
RowBefore(r, s, cols) ==
    \E c \in 1..Len(cols) :
        /\ \A e \in 1..(c - 1) : r[cols[e]] = s[cols[e]]
        /\ LexLess(r[cols[c]], s[cols[c]])

\* The rows of a table in the order of ORDER BY cols; rows that tie keep
\* their rowid order.
OrderBy(table, cols) ==
    LET Place(sorted, row) ==
            LET k == Cardinality({i \in 1..Len(sorted) :
                                     ~RowBefore(row, sorted[i], cols)})
            IN  SubSeq(sorted, 1, k) \o <<row>> \o SubSeq(sorted, k + 1, Len(sorted))
        sorted[n \in 0..Len(table)] ==
            IF n = 0 THEN <<>> ELSE Place(sorted[n - 1], table[n])
    IN  sorted[Len(table)]

(***************************************************************************)
(* process_document: the batch entries of one document.                    *)
(***************************************************************************)
\* Variant of FieldEntries: a list is stored as one composite value.
FieldEntries_Composite(merge_key_str, field_name, field_value) ==
    << <<merge_key_str, field_name, hash_value(field_value),
         serialize_value(field_value)>> >>

\* The entries of one field: one per item of a list, else one for the value.
FieldEntries(merge_key_str, field_name, field_value) ==
    IF field_value.t = "arr"
    THEN [i \in 1..Len(field_value.v) |->
             <<merge_key_str, field_name, hash_value(field_value.v[i]),
               serialize_value(field_value.v[i])>>]
    ELSE << <<merge_key_str, field_name, hash_value(field_value),
              serialize_value(field_value)>> >>

\* The loop over doc.items() from pair i on, skipping the merge key field.
RECURSIVE DocEntries(_, _, _)
DocEntries(doc, merge_key_str, i) ==
    IF i > Len(doc.v) THEN <<>>
    ELSE (IF doc.v[i][1] = merge_key_field THEN <<>>
          ELSE FieldEntries(merge_key_str, doc.v[i][1], doc.v[i][2]))
         \o DocEntries(doc, merge_key_str, i + 1)

\* Variant of KeyRow: merge_key is written with json.dumps without
\* sort_keys, while the puts carry the sorted text.
KeyRow_RawKey(merge_key_value) ==
    <<IF merge_key_value.t = "obj"
      THEN <<123>> \o DumpPairs(merge_key_value.v, 1) \o <<125>>
      ELSE serialize_value(merge_key_value),
      serialize_value(merge_key_value)>>

\* Variant of KeyRow: key_value is written with json.dumps without
\* sort_keys, so it keeps the key order of the record at hand.
KeyRow_Unsorted(merge_key_value) ==
    <<serialize_value(merge_key_value),
      IF merge_key_value.t = "obj"
      THEN <<123>> \o DumpPairs(merge_key_value.v, 1) \o <<125>>
      ELSE serialize_value(merge_key_value)>>

\* The row (merge_key, key_value) process_document writes to merge_keys.
KeyRow(merge_key_value) ==
    <<serialize_value(merge_key_value), serialize_value(merge_key_value)>>

TypeOK ==
    /\ pc \in {"start", "ingest", "flush", "export", "cleanup", "done", "error", "failed"}
    /\ batch_size \in 1..MaxBatchSize
    /\ Len(input) <= MaxLines
    /\ processed_lines \in 0..Len(input)
    /\ input_stream \in {"None", "open", "closed"}
    /\ output_stream \in {"None", "open", "closed"}
    /\ conn \in {"None", "open", "closed"}
    /\ tmp_db \in BOOLEAN

\* The collector before its first request: the module-level assignments.
NvdInit ==
    /\ nvd_pc = "page"
    /\ offset = 0
    /\ retries = 0
    /\ more_data = TRUE
    /\ total_results = 0
    /\ file = <<>>
    /\ request_log = <<>>

\* The merger at the top of the ingest loop: the temp database is open and
\* new, the input file is open, the output file is not yet opened.
Init ==
    /\ pc = "ingest"
    /\ input_stream = "open"
    /\ output_stream = "None"
    /\ conn = "open"
    /\ tmp_db = TRUE
    /\ NvdInit
    /\ batch_size \in 1..MaxBatchSize
    /\ input = <<>>
    /\ merge_keys = <<>>
    /\ field_values = <<>>
    /\ batch_data = <<>>
    /\ batch_peak = 0
    /\ processed_lines = 0
    /\ diag = <<>>
    /\ output = <<>>

(***************************************************************************)
(* The ingest loop: one action per outcome of a line.                      *)
(***************************************************************************)
CanRead == pc = "ingest" /\ Len(input) < MaxLines

\* raw_line.strip() is empty: the line is skipped without a message.
SkipEmpty(line) ==
    /\ UNCHANGED <<streams, nvd_vars>>
    /\ CanRead
    /\ line.kind = "blank"
    /\ input' = Append(input, line)
    /\ UNCHANGED <<pc, batch_size, merge_keys, field_values, batch_data,
                   batch_peak, processed_lines, diag, output>>

\* Variant of SkipInvalid: json.loads is called outside the inner try, so the
\* error reaches the handler that ends the run.
SkipInvalid_Fatal(line) ==
    /\ UNCHANGED <<streams, nvd_vars>>
    /\ CanRead
    /\ line.kind = "invalid"
    /\ input' = Append(input, line)
    /\ diag' = Append(diag, <<"error", Len(input) + 1>>)
    /\ pc' = "error"
    /\ UNCHANGED <<batch_size, merge_keys, field_values, batch_data,
                   batch_peak, processed_lines, output>>

\* json.loads raises JSONDecodeError: a message with the line number.
SkipInvalid(line) ==
    /\ UNCHANGED <<streams, nvd_vars>>
    /\ CanRead
    /\ line.kind = "invalid"
    /\ input' = Append(input, line)
    /\ diag' = Append(diag, <<"invalid_json", Len(input) + 1>>)
    /\ UNCHANGED <<pc, batch_size, merge_keys, field_values, batch_data,
                   batch_peak, processed_lines, output>>

\* Variant of SkipMissingKey: the key is read with doc.get, so a record
\* without the field is registered and buffered under the key null.
SkipMissingKey_GetDefault(line) ==
    /\ UNCHANGED <<streams, nvd_vars>>
    /\ CanRead
    /\ line.kind = "json"
    /\ ~HasKey(line.doc, merge_key_field)
    /\ input' = Append(input, line)
    /\ merge_keys' = InsertOrReplaceKey(merge_keys, KeyRow(JNull))
    /\ batch_data' = batch_data \o DocEntries(line.doc, serialize_value(JNull), 1)
    /\ UNCHANGED <<pc, batch_size, field_values, batch_peak, processed_lines,
                   diag, output>>

\* The merge key field is not in the document: a warning with the line number.
SkipMissingKey(line) ==
    /\ UNCHANGED <<streams, nvd_vars>>
    /\ CanRead
    /\ line.kind = "json"
    /\ ~HasKey(line.doc, merge_key_field)
    /\ input' = Append(input, line)
    /\ diag' = Append(diag, <<"missing_key", Len(input) + 1>>)
    /\ UNCHANGED <<pc, batch_size, merge_keys, field_values, batch_data,
                   batch_peak, processed_lines, output>>

\* Variant of Accept: a full buffer is cleared before it is written.
Accept_ClearFirst(line) ==
    /\ UNCHANGED <<streams, nvd_vars>>
    /\ CanRead
    /\ line.kind = "json"
    /\ HasKey(line.doc, merge_key_field)
    /\ LET merge_key_value == GetKey(line.doc, merge_key_field)
           merge_key_str == serialize_value(merge_key_value)
           filled == batch_data \o DocEntries(line.doc, merge_key_str, 1)
       IN  /\ merge_keys' = InsertOrReplaceKey(merge_keys, KeyRow(merge_key_value))
           /\ batch_peak' = IF Len(filled) > batch_peak THEN Len(filled) ELSE batch_peak
           /\ field_values' = field_values
           /\ batch_data' = IF Len(filled) >= batch_size THEN <<>> ELSE filled
    /\ input' = Append(input, line)
    /\ processed_lines' = processed_lines + 1
    /\ diag' = IF (processed_lines + 1) % progress_interval = 0
               THEN Append(diag, <<"progress", processed_lines + 1>>)
               ELSE diag
    /\ UNCHANGED <<pc, batch_size, output>>

\* process_document on an accepted line, then the count and progress message.
Accept(line) ==
    /\ UNCHANGED <<streams, nvd_vars>>
    /\ CanRead
    /\ line.kind = "json"
    /\ HasKey(line.doc, merge_key_field)
    /\ LET merge_key_value == GetKey(line.doc, merge_key_field)
           merge_key_str == serialize_value(merge_key_value)
           filled == batch_data \o DocEntries(line.doc, merge_key_str, 1)
       IN  /\ merge_keys' = InsertOrReplaceKey(merge_keys, KeyRow(merge_key_value))
           /\ batch_peak' = IF Len(filled) > batch_peak THEN Len(filled) ELSE batch_peak
           /\ IF Len(filled) >= batch_size
              THEN /\ field_values' = insert_field_values_batch(field_values, filled)
                   /\ batch_data' = <<>>
              ELSE /\ field_values' = field_values
                   /\ batch_data' = filled
    /\ input' = Append(input, line)
    /\ processed_lines' = processed_lines + 1
    /\ diag' = IF (processed_lines + 1) % progress_interval = 0
               THEN Append(diag, <<"progress", processed_lines + 1>>)
               ELSE diag
    /\ UNCHANGED <<pc, batch_size, output>>

(***************************************************************************)
(* Lines that hold a JSON value that is not an object.  The test           *)
(* `merge_key_field not in doc` is then the membership test of a list, the *)
(* substring test of a string, and a TypeError for any other value.        *)
(***************************************************************************)
\* s has the text t as a substring.
IsSubstring(t, s) ==
    \E i \in 0..(Len(s) - Len(t)) : SubSeq(s, i + 1, i + Len(t)) = t

\* Python's `name in doc` for a list or a string.
Contains(doc, name) ==
    IF doc.t = "arr"
    THEN \E i \in 1..Len(doc.v) : doc.v[i] = JStr(name)
    ELSE IsSubstring(name, doc.v)

\* A list or string that does not contain the key name: the same warning as
\* for an object without the key, and the line is skipped.
SkipNotContained(line) ==
    /\ UNCHANGED <<streams, nvd_vars>>
    /\ CanRead
    /\ line.kind = "value"
    /\ line.doc.t \in {"arr", "str"}
    /\ ~Contains(line.doc, merge_key_field)
    /\ input' = Append(input, line)
    /\ diag' = Append(diag, <<"missing_key", Len(input) + 1>>)
    /\ UNCHANGED <<pc, batch_size, merge_keys, field_values, batch_data,
                   batch_peak, processed_lines, output>>

\* A number or null: the test itself raises TypeError, which only the
\* handler of the whole run catches (except Exception: message, sys.exit(1)).
FailNotIterable(line) ==
    /\ UNCHANGED <<streams, nvd_vars>>
    /\ CanRead
    /\ line.kind = "value"
    /\ line.doc.t \in {"num", "null"}
    /\ input' = Append(input, line)
    /\ diag' = Append(diag, <<"error", Len(input) + 1>>)
    /\ pc' = "error"
    /\ UNCHANGED <<batch_size, merge_keys, field_values, batch_data,
                   batch_peak, processed_lines, output>>

\* A list or string that contains the key name passes both tests; then
\* doc[merge_key_field] in process_document raises TypeError before any
\* write, and the run ends the same way.
FailNoIndex(line) ==
    /\ UNCHANGED <<streams, nvd_vars>>
    /\ CanRead
    /\ line.kind = "value"
    /\ line.doc.t \in {"arr", "str"}
    /\ Contains(line.doc, merge_key_field)
    /\ input' = Append(input, line)
    /\ diag' = Append(diag, <<"error", Len(input) + 1>>)
    /\ pc' = "error"
    /\ UNCHANGED <<batch_size, merge_keys, field_values, batch_data,
                   batch_peak, processed_lines, output>>

\* The input stream is exhausted: the loop ends, the stream is closed and
\* the variable is set to None.
EndOfInput ==
    /\ input_stream' = "None"
    /\ UNCHANGED <<output_stream, conn, tmp_db, nvd_vars>>
    /\ pc = "ingest"
    /\ pc' = "flush"
    /\ UNCHANGED <<batch_size, input, merge_keys, field_values, batch_data,
                   batch_peak, processed_lines, diag, output>>

\* Variant of FinalFlush: the remaining batch data is not written.
FinalFlush_NoFlush ==
    /\ UNCHANGED <<streams, nvd_vars>>
    /\ pc = "flush"
    /\ diag' = Append(diag, <<"total", processed_lines>>)
    /\ pc' = "export"
    /\ UNCHANGED <<batch_size, input, merge_keys, field_values, batch_data,
                   batch_peak, processed_lines, output>>

\* Flush any remaining batch data, then report the total.
FinalFlush ==
    /\ UNCHANGED <<streams, nvd_vars>>
    /\ pc = "flush"
    /\ field_values' = IF batch_data # <<>>
                       THEN insert_field_values_batch(field_values, batch_data)
                       ELSE field_values
    /\ diag' = Append(diag, <<"total", processed_lines>>)
    /\ pc' = "export"
    /\ UNCHANGED <<batch_size, input, merge_keys, batch_data, batch_peak,
                   processed_lines, output>>

(***************************************************************************)
(* export_merged_data.                                                     *)
(***************************************************************************)
\* current_field = None
None == <<-1>>

\* Variant of SelectKeys: the ORDER BY clause is missing.
SelectKeys_Unordered(keys_table) == keys_table

\* SELECT merge_key, key_value FROM merge_keys ORDER BY merge_key
SelectKeys(keys_table) == OrderBy(keys_table, <<1>>)

\* Variant of SelectFields: ORDER BY field_name alone, so the values of a
\* field come in rowid order.
SelectFields_ByFieldOnly(values_table, merge_key_str) ==
    LET hit == SelectSeq(values_table, LAMBDA r : r[1] = merge_key_str)
    IN  OrderBy([i \in 1..Len(hit) |-> <<hit[i][2], hit[i][4]>>], <<1>>)

\* SELECT field_name, value_data FROM field_values WHERE merge_key = ?
\* ORDER BY field_name, value_data
SelectFields(values_table, merge_key_str) ==
    LET hit == SelectSeq(values_table, LAMBDA r : r[1] = merge_key_str)
    IN  OrderBy([i \in 1..Len(hit) |-> <<hit[i][2], hit[i][4]>>], <<1, 2>>)

\* Variant of SaveField: the values are always saved as a list.
SaveField_AlwaysList(merged_doc, current_field, values) ==
    SetKey(merged_doc, current_field, JArr(values))

\* Save a finished field: a single value as itself, several as a list.
SaveField(merged_doc, current_field, values) ==
    SetKey(merged_doc, current_field,
           IF Len(values) = 1 THEN values[1] ELSE JArr(values))

\* The loop over the selected rows from row i on, then the last field.
RECURSIVE GroupFields(_, _, _, _, _)
GroupFields(rows, i, merged_doc, current_field, values) ==
    IF i > Len(rows)
    THEN IF current_field # None
         THEN SaveField(merged_doc, current_field, values)
         ELSE merged_doc
    ELSE LET field_name == rows[i][1]
             value == deserialize_value(rows[i][2])
         IN  IF current_field # field_name
             THEN GroupFields(rows, i + 1,
                      IF current_field # None
                      THEN SaveField(merged_doc, current_field, values)
                      ELSE merged_doc,
                      field_name, <<value>>)
             ELSE GroupFields(rows, i + 1, merged_doc, current_field,
                              Append(values, value))

\* Variant of MergedDoc: key_value is written as the stored text, not decoded.
MergedDoc_RawKey(values_table, key_row) ==
    GroupFields(SelectFields(values_table, key_row[1]), 1,
                JObj(<< <<merge_key_field, JStr(key_row[2])>> >>),
                None, <<>>)

\* The merged document of one row of merge_keys.
MergedDoc(values_table, key_row) ==
    GroupFields(SelectFields(values_table, key_row[1]), 1,
                JObj(<< <<merge_key_field, deserialize_value(key_row[2])>> >>),
                None, <<>>)

\* The documents export_merged_data writes, one per line.
export_merged_data(keys_table, values_table) ==
    LET keys == SelectKeys(keys_table)
    IN  [k \in 1..Len(keys) |-> MergedDoc(values_table, keys[k])]

\* json.dump(merged_doc, output_file, separators=(',', ':')): the text of an
\* output line; the keys of objects stay in the order the value has them.
RECURSIVE json_dump(_)
RECURSIVE JoinItems(_, _)
RECURSIVE JoinPairs(_, _)
JoinItems(items, i) ==
    IF i > Len(items) THEN <<>>
    ELSE (IF i > 1 THEN <<44>> ELSE <<>>)
         \o json_dump(items[i]) \o JoinItems(items, i + 1)

JoinPairs(pairs, i) ==
    IF i > Len(pairs) THEN <<>>
    ELSE (IF i > 1 THEN <<44>> ELSE <<>>)
         \o <<34>> \o pairs[i][1] \o <<34, 58>>
         \o json_dump(pairs[i][2]) \o JoinPairs(pairs, i + 1)

json_dump(value) ==
    CASE value.t = "null" -> <<110, 117, 108, 108>>
      [] value.t = "num"  -> DigitsOf(value.v)
      [] value.t = "str"  -> <<34>> \o value.v \o <<34>>
      [] value.t = "arr"  -> <<91>> \o JoinItems(value.v, 1) \o <<93>>
      [] value.t = "obj"  -> <<123>> \o JoinPairs(value.v, 1) \o <<125>>

\* Variant of Export: the rows of a key are deleted once its record is written.
Export_Consuming ==
    /\ output_stream' = "None"
    /\ UNCHANGED <<input_stream, conn, tmp_db, nvd_vars>>
    /\ pc = "export"
    /\ output' = export_merged_data(merge_keys, field_values)
    /\ merge_keys' = <<>>
    /\ field_values' = <<>>
    /\ diag' = Append(diag, <<"complete", 0>>)
    /\ pc' = "cleanup"
    /\ UNCHANGED <<batch_size, input, batch_data, batch_peak, processed_lines>>

\* Open the output stream, export the merged data, close the stream and set
\* the variable to None.
Export ==
    /\ output_stream' = "None"
    /\ UNCHANGED <<input_stream, conn, tmp_db, nvd_vars>>
    /\ pc = "export"
    /\ output' = export_merged_data(merge_keys, field_values)
    /\ diag' = Append(diag, <<"complete", 0>>)
    /\ pc' = "cleanup"
    /\ UNCHANGED <<batch_size, input, merge_keys, field_values, batch_data,
                   batch_peak, processed_lines>>

\* Variant of Cleanup: the finally block closes the connection and removes
\* the temp database, and leaves the streams as they are.
Cleanup_KeepStreams ==
    /\ pc \in {"cleanup", "error"}
    /\ conn' = "closed"
    /\ tmp_db' = FALSE
    /\ merge_keys' = <<>>
    /\ field_values' = <<>>
    /\ pc' = IF pc = "cleanup" THEN "done" ELSE "failed"
    /\ UNCHANGED <<batch_size, input, batch_data, batch_peak, processed_lines,
                   diag, output, input_stream, output_stream, nvd_vars>>

\* The finally block: the streams that are still open are closed, the
\* connection is closed and the temp database removed, after the export or
\* after sys.exit(1) in an exception handler.  pc = "done" is the return of
\* the function, pc = "failed" the exit with status 1.
Cleanup ==
    /\ input_stream' = IF input_stream = "open" THEN "closed" ELSE input_stream
    /\ output_stream' = IF output_stream = "open" THEN "closed" ELSE output_stream
    /\ conn' = "closed"
    /\ tmp_db' = FALSE
    /\ UNCHANGED nvd_vars
    /\ pc \in {"cleanup", "error"}
    /\ merge_keys' = <<>>
    /\ field_values' = <<>>
    /\ pc' = IF pc = "cleanup" THEN "done" ELSE "failed"
    /\ UNCHANGED <<batch_size, input, batch_data, batch_peak, processed_lines,
                   diag, output>>

Next ==
    \/ \E line \in Lines : SkipEmpty(line)
    \/ \E line \in Lines : SkipInvalid(line)
    \/ \E line \in Lines : SkipMissingKey(line)
    \/ \E line \in Lines : Accept(line)
    \/ EndOfInput
    \/ FinalFlush
    \/ Export
    \/ Cleanup

Spec == Init /\ [][Next]_vars

(***************************************************************************)
(* A second input source: besides records it delivers JSON values that are *)
(* not objects, and records whose merge key is null or the string "null".  *)
(***************************************************************************)
\* "null", "valid"
sNull == <<110, 117, 108, 108>>
sValid == <<118, 97, 108, 105, 100>>

\* {"id":null,"name":"Alice"}
DocNull == JObj(<< <<fId, JNull>>, <<fName, JStr(sAlice)>> >>)
\* {"id":"null","name":"Bob"}
DocNullStr == JObj(<< <<fId, JStr(sNull)>>, <<fName, JStr(sBob)>> >>)

\* 5, "valid", ["id"] and ["a"]
NumberLine == ValueLine(JNum(5))
StringLine == ValueLine(JStr(sValid))
ListWithKeyLine == ValueLine(JArr(<<JStr(fId)>>))
ListLine == ValueLine(JArr(<<JStr(sa)>>))

EdgeLines ==
    {BlankLine, InvalidLine, NumberLine, StringLine, ListWithKeyLine, ListLine}
    \cup {JsonLine(d) : d \in {DocNoKey, DocNull, DocNullStr, DocA1, DocB}}

NextEdge ==
    \/ \E line \in EdgeLines : SkipEmpty(line)
    \/ \E line \in EdgeLines : SkipInvalid(line)
    \/ \E line \in EdgeLines : SkipMissingKey(line)
    \/ \E line \in EdgeLines : SkipNotContained(line)
    \/ \E line \in EdgeLines : FailNotIterable(line)
    \/ \E line \in EdgeLines : FailNoIndex(line)
    \/ \E line \in EdgeLines : Accept(line)
    \/ EndOfInput
    \/ FinalFlush
    \/ Export
    \/ Cleanup

SpecEdge == Init /\ [][NextEdge]_vars

(***************************************************************************)
(* A third input source: records whose keys or field values are objects in *)
(* different key order, empty lists and nested lists.                      *)
(***************************************************************************)
\* {"id":"k1","tags":[]}
DocEmpty == JObj(<< <<fId, JStr(sK1)>>, <<fTags, JArr(<<>>)>> >>)
\* {"id":"k1","tags":[["a"]]}
DocNest == JObj(<< <<fId, JStr(sK1)>>, <<fTags, JArr(<<JArr(<<JStr(sa)>>)>>)>> >>)
\* {"id":"A","role":{"a":1,"b":2}}
DocF1 == JObj(<< <<fId, JStr(sA)>>, <<fRole, JObj(<< <<sa, JNum(1)>>, <<sb, JNum(2)>> >>)>> >>)
\* {"role":{"b":2,"a":1},"id":"A"}
DocF2 == JObj(<< <<fRole, JObj(<< <<sb, JNum(2)>>, <<sa, JNum(1)>> >>)>>, <<fId, JStr(sA)>> >>)

ShapeLines ==
    {JsonLine(d) : d \in {DocNoKey, DocEmpty, DocNest, DocF1, DocF2, DocO1, DocO2, DocA1}}

NextShape ==
    \/ \E line \in ShapeLines : SkipMissingKey(line)
    \/ \E line \in ShapeLines : Accept(line)
    \/ EndOfInput
    \/ FinalFlush
    \/ Export
    \/ Cleanup

SpecShape == Init /\ [][NextShape]_vars

(***************************************************************************)
(* A fourth input source: records that share keys, fields and list items,  *)
(* so that the order of the lines decides the order of the rows.           *)
(***************************************************************************)
OrderLines ==
    {JsonLine(d) : d \in {DocNoKey, DocA1, DocF1, DocO1, DocO2, DocT1, DocT2}}

NextOrder ==
    \/ \E line \in OrderLines : SkipMissingKey(line)
    \/ \E line \in OrderLines : Accept(line)
    \/ EndOfInput
    \/ FinalFlush
    \/ Export
    \/ Cleanup

SpecOrder == Init /\ [][NextOrder]_vars

(***************************************************************************)
(* A fifth input source: two records of one key whose role values differ   *)
(* and have the same digest.                                               *)
(***************************************************************************)
\* "aaob", "ibaa": sha256 of "\"aaob\"" and of "\"ibaa\"" is 979698
sAaob == <<97, 97, 111, 98>>
sIbaa == <<105, 98, 97, 97>>

\* {"id":"A","role":"aaob"}
DocC1 == JObj(<< <<fId, JStr(sA)>>, <<fRole, JStr(sAaob)>> >>)
\* {"id":"A","role":"ibaa"}
DocC2 == JObj(<< <<fId, JStr(sA)>>, <<fRole, JStr(sIbaa)>> >>)

CollideLines == {JsonLine(d) : d \in {DocNoKey, DocC1, DocC2, DocA1, DocA2}}

NextCollide ==
    \/ \E line \in CollideLines : SkipMissingKey(line)
    \/ \E line \in CollideLines : Accept(line)
    \/ EndOfInput
    \/ FinalFlush
    \/ Export
    \/ Cleanup

SpecCollide == Init /\ [][NextCollide]_vars

(***************************************************************************)
(* A run from its first line, with the faults of its environment: a temp   *)
(* database left by an earlier run, an interrupt from the keyboard, and    *)
(* statements of the database that raise sqlite3.Error.                    *)
(***************************************************************************)
\* {"id":"B","name":"Eve"}: the record of the earlier run
DocStale == JObj(<< <<fId, JStr(sB)>>, <<fName, JStr(sEve)>> >>)

\* The tables the earlier run left in the temp database.
StaleKeys == <<KeyRow(GetKey(DocStale, merge_key_field))>>
StaleValues ==
    DocEntries(DocStale, serialize_value(GetKey(DocStale, merge_key_field)), 1)

\* The entry of stream_merge_jsonl_optimized: nothing is open, and the temp
\* database of an earlier run exists at the path.
InitStale ==
    /\ pc = "start"
    /\ batch_size \in 1..MaxBatchSize
    /\ input = <<>>
    /\ tmp_db = TRUE
    /\ merge_keys = StaleKeys
    /\ field_values = StaleValues
    /\ batch_data = <<>>
    /\ batch_peak = 0
    /\ processed_lines = 0
    /\ diag = <<>>
    /\ output = <<>>
    /\ input_stream = "None"
    /\ output_stream = "None"
    /\ conn = "None"
    /\ NvdInit

\* open_sqlite: a table of a database that exists is kept, a new database
\* gets the table created empty.
open_sqlite(db_exists, table) == IF db_exists THEN table ELSE <<>>

\* Variant of OpenStore: the temp database that exists is not removed.
OpenStore_KeepExisting ==
    /\ pc = "start"
    /\ merge_keys' = open_sqlite(tmp_db, merge_keys)
    /\ field_values' = open_sqlite(tmp_db, field_values)
    /\ tmp_db' = TRUE
    /\ conn' = "open"
    /\ input_stream' = "open"
    /\ pc' = "ingest"
    /\ UNCHANGED <<batch_size, input, batch_data, batch_peak, processed_lines,
                   diag, output, output_stream, nvd_vars>>

\* Lines 280-299: an existing temp database is removed, then the database and
\* the input stream are opened.
OpenStore ==
    /\ pc = "start"
    /\ LET db_exists == IF tmp_db THEN FALSE ELSE tmp_db
       IN  /\ merge_keys' = open_sqlite(db_exists, merge_keys)
           /\ field_values' = open_sqlite(db_exists, field_values)
    /\ tmp_db' = TRUE
    /\ conn' = "open"
    /\ input_stream' = "open"
    /\ pc' = "ingest"
    /\ UNCHANGED <<batch_size, input, batch_data, batch_peak, processed_lines,
                   diag, output, output_stream, nvd_vars>>

\* KeyboardInterrupt in the ingest loop, at the final flush or before the
\* output stream is opened: the handler prints and calls sys.exit(1).
Interrupt ==
    /\ pc \in {"ingest", "flush", "export"}
    /\ diag' = Append(diag, <<"cancelled", 0>>)
    /\ pc' = "error"
    /\ UNCHANGED <<batch_size, input, merge_keys, field_values, batch_data,
                   batch_peak, processed_lines, output, streams, nvd_vars>>

\* KeyboardInterrupt inside export_merged_data: the output stream is open and
\* the first k records are written.
InterruptExport(k) ==
    /\ pc = "export"
    /\ k \in 0..Len(export_merged_data(merge_keys, field_values))
    /\ output_stream' = "open"
    /\ output' = SubSeq(export_merged_data(merge_keys, field_values), 1, k)
    /\ diag' = Append(diag, <<"cancelled", 0>>)
    /\ pc' = "error"
    /\ UNCHANGED <<batch_size, input, merge_keys, field_values, batch_data,
                   batch_peak, processed_lines, input_stream, conn, tmp_db,
                   nvd_vars>>

\* The INSERT OR REPLACE of process_document raises: nothing is written, the
\* handler of Exception prints the error and calls sys.exit(1).
FailRegistryWrite(line) ==
    /\ CanRead
    /\ line.kind = "json"
    /\ HasKey(line.doc, merge_key_field)
    /\ input' = Append(input, line)
    /\ diag' = Append(diag, <<"error", Len(input) + 1>>)
    /\ pc' = "error"
    /\ UNCHANGED <<batch_size, merge_keys, field_values, batch_data, batch_peak,
                   processed_lines, output, streams, nvd_vars>>

\* Variant of FailBatchFlush: the error of the flush is caught and reported
\* in the loop, which goes on with the next line.
FailBatchFlush_Swallowed(line, k) ==
    /\ CanRead
    /\ line.kind = "json"
    /\ HasKey(line.doc, merge_key_field)
    /\ LET merge_key_value == GetKey(line.doc, merge_key_field)
           filled == batch_data \o DocEntries(line.doc, serialize_value(merge_key_value), 1)
       IN  /\ Len(filled) >= batch_size
           /\ k \in 0..(Len(filled) - 1)
           /\ merge_keys' = InsertOrReplaceKey(merge_keys, KeyRow(merge_key_value))
           /\ field_values' = insert_field_values_batch(field_values, SubSeq(filled, 1, k))
           /\ batch_data' = filled
           /\ batch_peak' = IF Len(filled) > batch_peak THEN Len(filled) ELSE batch_peak
    /\ input' = Append(input, line)
    /\ diag' = Append(diag, <<"error", Len(input) + 1>>)
    /\ UNCHANGED <<pc, batch_size, processed_lines, output, streams, nvd_vars>>

\* The flush of process_document raises after k rows of the batch: the key
\* is registered, the rows written stay (the connection is in autocommit
\* mode), the buffer is not cleared, and the handler calls sys.exit(1).
FailBatchFlush(line, k) ==
    /\ CanRead
    /\ line.kind = "json"
    /\ HasKey(line.doc, merge_key_field)
    /\ LET merge_key_value == GetKey(line.doc, merge_key_field)
           filled == batch_data \o DocEntries(line.doc, serialize_value(merge_key_value), 1)
       IN  /\ Len(filled) >= batch_size
           /\ k \in 0..(Len(filled) - 1)
           /\ merge_keys' = InsertOrReplaceKey(merge_keys, KeyRow(merge_key_value))
           /\ field_values' = insert_field_values_batch(field_values, SubSeq(filled, 1, k))
           /\ batch_data' = filled
           /\ batch_peak' = IF Len(filled) > batch_peak THEN Len(filled) ELSE batch_peak
    /\ input' = Append(input, line)
    /\ diag' = Append(diag, <<"error", Len(input) + 1>>)
    /\ pc' = "error"
    /\ UNCHANGED <<batch_size, processed_lines, output, streams, nvd_vars>>

\* The final flush raises after k rows of the remaining batch.
FailFinalFlush(k) ==
    /\ pc = "flush"
    /\ batch_data # <<>>
    /\ k \in 0..(Len(batch_data) - 1)
    /\ field_values' = insert_field_values_batch(field_values, SubSeq(batch_data, 1, k))
    /\ diag' = Append(diag, <<"error", Len(input)>>)
    /\ pc' = "error"
    /\ UNCHANGED <<batch_size, input, merge_keys, batch_data, batch_peak,
                   processed_lines, output, streams, nvd_vars>>

FaultLines == {JsonLine(d) : d \in {DocB, DocO2, DocT1}}

NextFault ==
    \/ OpenStore
    \/ \E line \in FaultLines : Accept(line)
    \/ \E line \in FaultLines : FailRegistryWrite(line)
    \/ \E line \in FaultLines : \E k \in 0..MaxBatchSize : FailBatchFlush(line, k)
    \/ EndOfInput
    \/ FinalFlush
    \/ \E k \in 0..MaxBatchSize : FailFinalFlush(k)
    \/ Interrupt
    \/ \E k \in 0..MaxLines : InterruptExport(k)
    \/ Export
    \/ Cleanup

SpecFault == InitStale /\ [][NextFault]_vars

\* The finally block is always run on the way out of the function.
SpecFaultFair == SpecFault /\ WF_vars(Cleanup)

(***************************************************************************)
(* nvd_collection.py: the collector of CVE pages.  A response of the       *)
(* server is given by the number of records the server holds when it       *)
(* answers; a record is named by its index, and the output file is the     *)
(* sequence of the chunks <<first index, last index>> written to it.       *)
(***************************************************************************)
PAGE_MAX == 2000
MAX_RETRIES == 5

\* The most full pages the server holds.
MaxFullPages == 1

\* The numbers of records the server can hold: full pages, and one more.
Totals == UNION {{q * PAGE_MAX, q * PAGE_MAX + 1} : q \in 0..MaxFullPages}

\* len(page_data["vulnerabilities"]) of the page at offset when the server
\* holds total records.
PageItems(total) ==
    IF total <= offset THEN 0
    ELSE IF total - offset >= PAGE_MAX THEN PAGE_MAX ELSE total - offset

\* The file after the first k records of the page at offset are written.
Written(k) == IF k = 0 THEN file ELSE Append(file, <<offset, offset + k - 1>>)

\* The variables of the merger, which the collector does not touch.
merge_vars == <<pc, batch_size, input, merge_keys, field_values, batch_data,
                batch_peak, processed_lines, diag, output, streams>>

\* The collector runs alone; the merger is not started.
InitNvd ==
    /\ NvdInit
    /\ pc = "start"
    /\ batch_size = 1
    /\ input = <<>>
    /\ merge_keys = <<>>
    /\ field_values = <<>>
    /\ batch_data = <<>>
    /\ batch_peak = 0
    /\ processed_lines = 0
    /\ diag = <<>>
    /\ output = <<>>
    /\ input_stream = "None"
    /\ output_stream = "None"
    /\ conn = "None"
    /\ tmp_db = FALSE

\* `while more_data:` is entered: retries = 0.
StartPage ==
    /\ nvd_pc = "page"
    /\ more_data
    /\ retries' = 0
    /\ nvd_pc' = "attempt"
    /\ UNCHANGED <<offset, more_data, total_results, file, request_log, merge_vars>>

\* `while more_data:` ends after a short page: the file is closed.
Finish ==
    /\ nvd_pc = "page"
    /\ ~more_data
    /\ nvd_pc' = "done"
    /\ UNCHANGED <<offset, retries, more_data, total_results, file, request_log,
                   merge_vars>>

\* An attempt that succeeds: every record of the page is written, the offset
\* advances, a short page ends the collection; break.
AttemptSucceeds(total) ==
    /\ nvd_pc = "attempt"
    /\ retries <= MAX_RETRIES
    /\ request_log' = Append(request_log, offset)
    /\ total_results' = IF total_results = 0 THEN total ELSE total_results
    /\ file' = Written(PageItems(total))
    /\ offset' = offset + PAGE_MAX
    /\ more_data' = IF PageItems(total) < PAGE_MAX THEN FALSE ELSE more_data
    /\ nvd_pc' = "page"
    /\ UNCHANGED <<retries, merge_vars>>

\* Variant of AttemptRateLimited: the wait after status 429 is not counted
\* as a retry.
AttemptRateLimited_NotCounted ==
    /\ nvd_pc = "attempt"
    /\ retries <= MAX_RETRIES
    /\ request_log' = Append(request_log, offset)
    /\ UNCHANGED <<nvd_pc, offset, retries, more_data, total_results, file, merge_vars>>

\* raise_for_status raises HTTPError with status 429: sleep 45 s, retries += 1.
AttemptRateLimited ==
    /\ nvd_pc = "attempt"
    /\ retries <= MAX_RETRIES
    /\ request_log' = Append(request_log, offset)
    /\ retries' = retries + 1
    /\ UNCHANGED <<nvd_pc, offset, more_data, total_results, file, merge_vars>>

\* HTTPError with another status: sleep with backoff, retries += 1.
AttemptHttpError ==
    /\ nvd_pc = "attempt"
    /\ retries <= MAX_RETRIES
    /\ request_log' = Append(request_log, offset)
    /\ retries' = retries + 1
    /\ UNCHANGED <<nvd_pc, offset, more_data, total_results, file, merge_vars>>

\* Another exception of the request or of the decoding of its body: sleep
\* with backoff, retries += 1.
AttemptRequestError ==
    /\ nvd_pc = "attempt"
    /\ retries <= MAX_RETRIES
    /\ request_log' = Append(request_log, offset)
    /\ retries' = retries + 1
    /\ UNCHANGED <<nvd_pc, offset, more_data, total_results, file, merge_vars>>

\* The response is read, and an exception is raised in the loop over its
\* records after k of them are written (a record without 'cve', an OSError
\* of the write): it is handled like any other exception.
AttemptWriteFails(total, k) ==
    /\ nvd_pc = "attempt"
    /\ retries <= MAX_RETRIES
    /\ k < PageItems(total)
    /\ request_log' = Append(request_log, offset)
    /\ total_results' = IF total_results = 0 THEN total ELSE total_results
    /\ file' = Written(k)
    /\ retries' = retries + 1
    /\ UNCHANGED <<nvd_pc, offset, more_data, merge_vars>>

\* The else branch of the retry loop: every attempt failed; break.
GiveUp ==
    /\ nvd_pc = "attempt"
    /\ retries > MAX_RETRIES
    /\ nvd_pc' = "done"
    /\ UNCHANGED <<offset, retries, more_data, total_results, file, request_log,
                   merge_vars>>

NextNvd ==
    \/ StartPage
    \/ \E total \in Totals : AttemptSucceeds(total)
    \/ AttemptRateLimited
    \/ AttemptHttpError
    \/ AttemptRequestError
    \/ \E total \in Totals : \E k \in {0, 1} : AttemptWriteFails(total, k)
    \/ GiveUp
    \/ Finish

SpecNvd == InitNvd /\ [][NextNvd]_vars

(***************************************************************************)
(* Vocabulary of the properties.                                           *)
(***************************************************************************)
\* A line the ingest loop accepts: a JSON object that has the merge key field.
AcceptedLine(line) == line.kind = "json" /\ HasKey(line.doc, merge_key_field)

\* The documents of the accepted lines read so far.
AcceptedDocs == {input[i].doc : i \in {n \in 1..Len(input) : AcceptedLine(input[n])}}

\* The encoded merge key of a document.
KeyText(doc) == serialize_value(GetKey(doc, merge_key_field))

\* The elements of a sequence.
Range(seq) == {seq[i] : i \in 1..Len(seq)}

\* The puts process_document generates for a document.
PutsOf(doc) == Range(DocEntries(doc, KeyText(doc), 1))

\* valuesFor(mergeKey, field): the values the store returns for the pair, in
\* the order of the SELECT of the export.
valuesFor(table, merge_key_str, field_name) ==
    LET rows == SelectFields(SelectSeq(table, LAMBDA r : r[2] = field_name),
                             merge_key_str)
    IN  [i \in 1..Len(rows) |-> rows[i][2]]

\* The candidate values of a field value: the items of a list, else the value.
Members(value) == IF value.t = "arr" THEN Range(value.v) ELSE {value}

\* The field value set of (merge key, field): the canonical encodings of the
\* distinct values observed in the accepted records with that key.
ValueSet(merge_key_str, field_name) ==
    {serialize_value(m) :
        m \in UNION {Members(GetKey(d, field_name)) :
                        d \in {a \in AcceptedDocs :
                                  /\ KeyText(a) = merge_key_str
                                  /\ HasKey(a, field_name)}}}

\* The store holds a row with the key, field and value data of a put.
Stored(table, put) ==
    \E i \in 1..Len(table) :
        table[i][1] = put[1] /\ table[i][2] = put[2] /\ table[i][4] = put[4]

\* The export has run: output holds the exported records.
Exported == pc \in {"cleanup", "done"}

(***************************************************************************)
(* C1  Idempotent put.  In every state of a run and for every put p        *)
(* (merge key, field, value): putting p twice in the same batch, or        *)
(* putting it again in a later batch, gives the same valuesFor result for  *)
(* its (merge key, field) as putting it once; and when p was already put   *)
(* earlier in the run, putting it again changes nothing.                   *)
(***************************************************************************)
\* The puts the documents of the model can generate.
AllPuts == UNION {PutsOf(d) : d \in {a \in Docs : HasKey(a, merge_key_field)}}

C1_IdempotentPut ==
    pc = "ingest" => \A p \in AllPuts :
        LET now == insert_field_values_batch(field_values, batch_data)
            once == insert_field_values_batch(field_values, Append(batch_data, p))
            same_batch == insert_field_values_batch(field_values,
                              Append(Append(batch_data, p), p))
            later_batch == insert_field_values_batch(once, <<p>>)
        IN  /\ valuesFor(same_batch, p[1], p[2]) = valuesFor(once, p[1], p[2])
            /\ valuesFor(later_batch, p[1], p[2]) = valuesFor(once, p[1], p[2])
            /\ (Stored(field_values, p) \/ p \in Range(batch_data))
                  => valuesFor(once, p[1], p[2]) = valuesFor(now, p[1], p[2])

\* Two accepted records put the same name under key "A" in different
\* batches, and the store returns it once.
C1_Witness ==
    /\ pc = "export"
    /\ batch_size = 1
    /\ input = <<JsonLine(DocA1), JsonLine(DocA2)>>
    /\ valuesFor(field_values, serialize_value(JStr(sA)), fName)
          = <<serialize_value(JStr(sAlice))>>

(***************************************************************************)
(* C2  Monotonic store.  From ingest until the scratch store is removed,   *)
(* every put of every accepted record is in the batch buffer or in the     *)
(* field store; and no step of ingest, flush or export removes a row of    *)
(* the field store.                                                        *)
(***************************************************************************)
C2_MonotonicStore ==
    /\ [](pc \in {"ingest", "flush", "export", "cleanup"} =>
            \A d \in AcceptedDocs : \A p \in PutsOf(d) :
                Stored(field_values, p) \/ p \in Range(batch_data))
    /\ [][pc # "cleanup" =>
            \A i \in 1..Len(field_values) :
                \E j \in 1..Len(field_values') : field_values'[j] = field_values[i]]_vars

\* A value flushed to the store is still there after a later record for the
\* same key and field, with another value, was flushed and the key written
\* to the registry again.
C2_Witness ==
    /\ pc = "ingest"
    /\ batch_size = 1
    /\ input = <<JsonLine(DocA1), JsonLine(DocA2)>>
    /\ valuesFor(field_values, serialize_value(JStr(sA)), fRole)
          = <<serialize_value(JStr(sAdmin)), serialize_value(JStr(sEditor))>>

(***************************************************************************)
(* C3  Collapse rule.  In every exported record, a non-key field whose     *)
(* value set has exactly one distinct value holds that value itself, and a *)
(* field with two or more distinct values holds a list of exactly those    *)
(* values, each once, in ascending order of their canonical encoding.  The *)
(* three lines A/A/B give {id:A, name:Alice, role:[admin, editor]} and     *)
(* {id:B, name:Bob}.                                                       *)
(***************************************************************************)
\* An exported field value agrees with the value set of its (key, field).
Collapsed(value, set) ==
    CASE Cardinality(set) = 1 -> set = {serialize_value(value)}
      [] Cardinality(set) >= 2 ->
            /\ value.t = "arr"
            /\ Len(value.v) = Cardinality(set)
            /\ {serialize_value(value.v[n]) : n \in 1..Len(value.v)} = set
            /\ \A n \in 1..(Len(value.v) - 1) :
                  LexLess(serialize_value(value.v[n]), serialize_value(value.v[n + 1]))
      [] OTHER -> FALSE

ScenarioInput == <<JsonLine(DocA1), JsonLine(DocA2), JsonLine(DocB)>>

ScenarioOutput ==
    << JObj(<< <<fId, JStr(sA)>>, <<fName, JStr(sAlice)>>,
               <<fRole, JArr(<<JStr(sAdmin), JStr(sEditor)>>)>> >>),
       JObj(<< <<fId, JStr(sB)>>, <<fName, JStr(sBob)>> >>) >>

C3_CollapseRule ==
    Exported =>
        /\ \A i \in 1..Len(output) : \A j \in 1..Len(output[i].v) :
              output[i].v[j][1] # merge_key_field =>
                  Collapsed(output[i].v[j][2],
                            ValueSet(KeyText(output[i]), output[i].v[j][1]))
        /\ input = ScenarioInput => output = ScenarioOutput

\* The A/A/B scenario has been exported: name collapses to a scalar and role
\* is a list of two values.
C3_Witness ==
    /\ pc = "done"
    /\ input = ScenarioInput
    /\ Len(output) = 2
    /\ GetKey(output[1], fName).t = "str"
    /\ GetKey(output[1], fRole).t = "arr"

(***************************************************************************)
(* C4  Array flattening.  Each item of a list-valued field of an accepted  *)
(* record is put on its own under that field, and nothing is stored for a  *)
(* field but the items and scalar values of its records; tags [a,b] then   *)
(* tags [b,c] under one key export tags = [a,b,c].                         *)
(***************************************************************************)
TagsInput == <<JsonLine(DocT1), JsonLine(DocT2)>>

TagsOutput ==
    << JObj(<< <<fId, JStr(sK1)>>,
               <<fTags, JArr(<<JStr(sa), JStr(sb), JStr(sc)>>)>> >>) >>

C4_ArrayFlattening ==
    /\ pc \in {"ingest", "flush", "export", "cleanup"} =>
          LET held == Range(field_values) \cup Range(batch_data)
          IN  /\ \A d \in AcceptedDocs : \A j \in 1..Len(d.v) :
                    (d.v[j][1] # merge_key_field /\ d.v[j][2].t = "arr") =>
                        \A n \in 1..Len(d.v[j][2].v) :
                            \E r \in held :
                                /\ r[1] = KeyText(d)
                                /\ r[2] = d.v[j][1]
                                /\ r[4] = serialize_value(d.v[j][2].v[n])
              /\ \A r \in held : r[4] \in ValueSet(r[1], r[2])
    /\ (Exported /\ input = TagsInput) => output = TagsOutput

\* The two tags records have been exported as one record with three tags.
C4_Witness ==
    /\ pc = "done"
    /\ input = TagsInput
    /\ Len(output) = 1
    /\ Len(GetKey(output[1], fTags).v) = 3

(***************************************************************************)
(* C5  Skip on missing key.  Reading a JSON object that lacks the merge    *)
(* key field leaves the registry, the batch buffer and the field store     *)
(* unchanged and adds exactly one missing-key diagnostic; and every value  *)
(* of an exported field was contributed by an accepted record of that key. *)
(***************************************************************************)
\* This step reads a line, the last of input'.
ReadsLine == Len(input') = Len(input) + 1

C5_SkipOnMissingKey ==
    /\ [][(/\ ReadsLine
           /\ input'[Len(input')].kind = "json"
           /\ ~HasKey(input'[Len(input')].doc, merge_key_field))
          => /\ UNCHANGED <<merge_keys, batch_data, field_values>>
             /\ diag' = Append(diag, <<"missing_key", Len(input')>>)]_vars
    /\ [](Exported =>
            \A i \in 1..Len(output) : \A j \in 1..Len(output[i].v) :
                output[i].v[j][1] # merge_key_field =>
                    LET set == ValueSet(KeyText(output[i]), output[i].v[j][1])
                        value == output[i].v[j][2]
                    IN  \/ serialize_value(value) \in set
                        \/ /\ value.t = "arr"
                           /\ \A n \in 1..Len(value.v) :
                                 serialize_value(value.v[n]) \in set)

\* A record without the key was read after an accepted one; the export holds
\* the accepted record alone and the warning names line 2.
C5_Witness ==
    /\ pc = "done"
    /\ input = <<JsonLine(DocA1), JsonLine(DocNoKey)>>
    /\ diag[1] = <<"missing_key", 2>>
    /\ output = << DocA1 >>

(***************************************************************************)
(* C6  Output cardinality and order.  After the export the output has one  *)
(* record per distinct encoded merge key of the accepted records, and the  *)
(* records are in ascending byte order of the encoded merge key.           *)
(***************************************************************************)
C6_OutputCardinalityAndOrder ==
    Exported =>
        LET keys == {KeyText(d) : d \in AcceptedDocs}
        IN  /\ Len(output) = Cardinality(keys)
            /\ {KeyText(output[i]) : i \in 1..Len(output)} = keys
            /\ \A i \in 1..(Len(output) - 1) :
                  LexLess(KeyText(output[i]), KeyText(output[i + 1]))

\* Three keys read in descending order are exported in ascending order; the
\* record of "B" has no field but the key.
C6_Witness ==
    /\ pc = "done"
    /\ input = <<JsonLine(DocT1), JsonLine(DocBOnly), JsonLine(DocA1)>>
    /\ Len(output) = 3
    /\ output[1] = DocA1
    /\ output[2] = DocBOnly

(***************************************************************************)
(* C7  Key stability.  In every exported record the merge key field holds  *)
(* the decoded merge key value of an accepted record of its group, decode  *)
(* of encode of a merge key is the key, and the field never holds the      *)
(* encoded text as a string.                                               *)
(***************************************************************************)
C7_KeyStability ==
    Exported =>
        /\ \A d \in AcceptedDocs :
              /\ PyEq(deserialize_value(KeyText(d)), GetKey(d, merge_key_field))
              /\ \E i \in 1..Len(output) :
                    PyEq(GetKey(output[i], merge_key_field),
                         GetKey(d, merge_key_field))
        /\ \A i \in 1..Len(output) :
              /\ \E d \in AcceptedDocs :
                    PyEq(GetKey(output[i], merge_key_field),
                         GetKey(d, merge_key_field))
              /\ GetKey(output[i], merge_key_field) # JStr(KeyText(output[i]))

\* A record whose key is the object {"b":2,"a":1} is exported with an object
\* as its key.
C7_Witness ==
    /\ pc = "done"
    /\ input = <<JsonLine(DocO2)>>
    /\ Len(output) = 1
    /\ GetKey(output[1], fId).t = "obj"
    /\ GetKey(GetKey(output[1], fId), sb) = JNum(2)

(***************************************************************************)
(* C8  Flush before read.  When the export is about to issue its first     *)
(* query, every put of every accepted record, and so every entry of the    *)
(* batch buffer, is in the field store.                                    *)
(***************************************************************************)
C8_FlushBeforeRead ==
    pc = "export" =>
        /\ \A d \in AcceptedDocs : \A p \in PutsOf(d) : Stored(field_values, p)
        /\ \A p \in Range(batch_data) : Stored(field_values, p)

\* The put of the one record stayed in the buffer during ingest (batch size
\* 2) and the final flush wrote it.
C8_Witness ==
    /\ pc = "export"
    /\ batch_size = 2
    /\ input = <<JsonLine(DocB)>>
    /\ Len(batch_data) = 1
    /\ Len(field_values) = 1

(***************************************************************************)
(* C9  Batch bound.  The batch buffer never holds more than batch_size     *)
(* entries, neither between records nor at the flush test inside           *)
(* process_document.                                                       *)
(***************************************************************************)
C9_BatchBound ==
    /\ Len(batch_data) <= batch_size
    /\ batch_peak <= batch_size

(***************************************************************************)
(* C10  Registry first writer wins.  When an accepted record registers an  *)
(* encoded merge key that is already in the registry, the row of that key  *)
(* is in the registry afterwards with the same key_value.                  *)
(***************************************************************************)
C10_RegistryFirstWriterWins ==
    [][(ReadsLine /\ AcceptedLine(input'[Len(input')])) =>
          \A i \in 1..Len(merge_keys) :
              merge_keys[i][1] = KeyText(input'[Len(input')].doc) =>
                  /\ \E j \in 1..Len(merge_keys') : merge_keys'[j] = merge_keys[i]
                  /\ \A j \in 1..Len(merge_keys') :
                        merge_keys'[j][1] = merge_keys[i][1] =>
                            merge_keys'[j][2] = merge_keys[i][2]]_vars

\* The same encoded key was registered by two records that spell the key
\* object in different key order; the registry holds one row for it.
C10_Witness ==
    /\ pc = "ingest"
    /\ input = <<JsonLine(DocO1), JsonLine(DocO2)>>
    /\ Len(merge_keys) = 1
    /\ merge_keys[1][2] = serialize_value(GetKey(DocO1, fId))

(***************************************************************************)
(* The run as a function of its input lines and batch size, built from the *)
(* operators of the actions.  It gives the output of a run on an input     *)
(* other than the one that was read.                                       *)
(***************************************************************************)
\* The registry, the store and the buffer after open_sqlite.
EmptyStore == [keys |-> <<>>, values |-> <<>>, batch |-> <<>>, failed |-> FALSE]

\* process_document on an accepted document.
process_document(st, doc, bsize) ==
    LET merge_key_value == GetKey(doc, merge_key_field)
        merge_key_str == serialize_value(merge_key_value)
        filled == st.batch \o DocEntries(doc, merge_key_str, 1)
    IN  [keys |-> InsertOrReplaceKey(st.keys, KeyRow(merge_key_value)),
         values |-> IF Len(filled) >= bsize
                    THEN insert_field_values_batch(st.values, filled)
                    ELSE st.values,
         batch |-> IF Len(filled) >= bsize THEN <<>> ELSE filled,
         failed |-> FALSE]

\* One pass of the ingest loop over a line.
IngestLine(st, line, bsize) ==
    CASE line.kind \in {"blank", "invalid"} -> st
      [] line.kind = "value" ->
            IF line.doc.t \in {"num", "null"} \/ Contains(line.doc, merge_key_field)
            THEN [st EXCEPT !.failed = TRUE]
            ELSE st
      [] line.kind = "json" ->
            IF HasKey(line.doc, merge_key_field)
            THEN process_document(st, line.doc, bsize)
            ELSE st

\* The ingest loop from line i on; an exception ends it.
RECURSIVE IngestFrom(_, _, _, _)
IngestFrom(st, lines, i, bsize) ==
    IF i > Len(lines) \/ st.failed
    THEN st
    ELSE IngestFrom(IngestLine(st, lines[i], bsize), lines, i + 1, bsize)

\* The output file of a whole run: ingest, final flush, export.  A run that
\* ends in the exception handler writes nothing.
stream_merge_jsonl_optimized(lines, bsize) ==
    LET st == IngestFrom(EmptyStore, lines, 1, bsize)
        flushed == IF st.batch # <<>>
                   THEN insert_field_values_batch(st.values, st.batch)
                   ELSE st.values
    IN  IF st.failed THEN <<>> ELSE export_merged_data(st.keys, flushed)

\* The actions and the function agree on the input that was read.
RunAgrees ==
    LET st == IngestFrom(EmptyStore, input, 1, batch_size)
    IN  /\ pc = "ingest" =>
              /\ ~st.failed
              /\ merge_keys = st.keys
              /\ field_values = st.values
              /\ batch_data = st.batch
        /\ pc \in {"error", "failed"} <=> st.failed
        /\ Exported => output = stream_merge_jsonl_optimized(input, batch_size)

(***************************************************************************)
(* C11  Non-object rejection.  Reading a line that holds a JSON value that *)
(* is not an object adds one diagnostic for that line, changes neither     *)
(* registry, buffer nor store, and leaves the run in the ingest loop.      *)
(***************************************************************************)
C11_NonObjectRejection ==
    [][(ReadsLine /\ input'[Len(input')].kind = "value") =>
          /\ UNCHANGED <<merge_keys, batch_data, field_values>>
          /\ Len(diag') = Len(diag) + 1
          /\ diag'[Len(diag')][1] \in {"invalid_json", "missing_key"}
          /\ diag'[Len(diag')][2] = Len(input')
          /\ pc' = "ingest"]_vars

(***************************************************************************)
(* C12  Per-record errors are local.  Reading a line that is not valid     *)
(* JSON adds one diagnostic with its line number and changes neither       *)
(* registry, buffer nor store; the stores during ingest and the output of  *)
(* the run are those of the same input with the malformed lines removed.   *)
(***************************************************************************)
\* The input with the lines that are not valid JSON removed.
WithoutInvalid(lines) == SelectSeq(lines, LAMBDA l : l.kind # "invalid")

C12_PerRecordErrorsLocal ==
    /\ [][(ReadsLine /\ input'[Len(input')].kind = "invalid") =>
             /\ UNCHANGED <<merge_keys, batch_data, field_values>>
             /\ diag' = Append(diag, <<"invalid_json", Len(input')>>)
             /\ pc' = "ingest"]_vars
    /\ [](pc = "ingest" =>
             LET st == IngestFrom(EmptyStore, WithoutInvalid(input), 1, batch_size)
             IN  /\ merge_keys = st.keys
                 /\ field_values = st.values
                 /\ batch_data = st.batch)
    /\ [](Exported =>
             output = stream_merge_jsonl_optimized(WithoutInvalid(input), batch_size))

\* A malformed line between two records: both records are exported and the
\* message names line 2.
C12_Witness ==
    /\ pc = "done"
    /\ input = <<JsonLine(DocA1), InvalidLine, JsonLine(DocB)>>
    /\ Len(output) = 2
    /\ \E i \in 1..Len(diag) : diag[i] = <<"invalid_json", 2>>

(***************************************************************************)
(* C13  Null key is a key.  A record whose merge key field is null is      *)
(* accepted without a missing-key message, its puts are held under the     *)
(* key encoded from null, and it is exported as the one record whose merge *)
(* key field is null, with the fields of the null-key records alone.       *)
(***************************************************************************)
\* A JSON object line whose merge key field is present and null.
NullKeyLine(line) ==
    /\ line.kind = "json"
    /\ \E i \in 1..Len(line.doc.v) : line.doc.v[i] = <<merge_key_field, JNull>>

\* The non-key field names of a document.
FieldNames(doc) == {doc.v[j][1] : j \in 1..Len(doc.v)} \ {merge_key_field}

C13_NullKeyIsAKey ==
    /\ [][(ReadsLine /\ NullKeyLine(input'[Len(input')])) =>
             /\ pc' = "ingest"
             /\ processed_lines' = processed_lines + 1
             /\ \A i \in 1..Len(diag') : diag'[i][1] # "missing_key" \/ i <= Len(diag)
             /\ \E i \in 1..Len(merge_keys') : merge_keys'[i][1] = sNull
             /\ \A p \in PutsOf(input'[Len(input')].doc) :
                   /\ p[1] = sNull
                   /\ Stored(field_values', p) \/ p \in Range(batch_data')]_vars
    /\ [](Exported /\ (\E n \in 1..Len(input) : NullKeyLine(input[n])) =>
             /\ Cardinality({i \in 1..Len(output) :
                                GetKey(output[i], merge_key_field) = JNull}) = 1
             /\ \A i \in 1..Len(output) :
                   GetKey(output[i], merge_key_field) = JNull =>
                       /\ FieldNames(output[i])
                             = {f \in UNION {FieldNames(input[n].doc) :
                                     n \in {m \in 1..Len(input) : NullKeyLine(input[m])}} :
                                   ValueSet(sNull, f) # {}}
                       /\ \A f \in FieldNames(output[i]) :
                             Collapsed(GetKey(output[i], f), ValueSet(sNull, f)))

\* A record with the key "null" and a record with the key null are exported
\* as two records; the second has the key null and the name of its record.
C13_Witness ==
    /\ pc = "done"
    /\ input = <<JsonLine(DocNull), JsonLine(DocNullStr)>>
    /\ output = <<DocNullStr, DocNull>>

(***************************************************************************)
(* C14  Final summary.  No line ends the run outside the four outcomes,    *)
(* and a completed run has reported the number of accepted, of empty, of   *)
(* unparsable and of keyless lines, which sum to the number of lines, and  *)
(* the number of exported merge keys.                                      *)
(***************************************************************************)
\* The number of lines read that satisfy a condition given as a set of lines.
CountLines(set) == Cardinality({n \in 1..Len(input) : input[n] \in set})

\* A message of the category with the count is on stderr.
Reported(category, count) == \E i \in 1..Len(diag) : diag[i] = <<category, count>>

C14_FinalSummary ==
    /\ pc \notin {"error", "failed"}
    /\ pc = "done" =>
          /\ Reported("total", processed_lines)
          /\ Reported("skipped_empty", CountLines({BlankLine}))
          /\ Reported("skipped_parse_error", CountLines({InvalidLine}))
          /\ Reported("skipped_missing_key",
                      Len(input) - processed_lines
                        - CountLines({BlankLine}) - CountLines({InvalidLine}))
          /\ Reported("merge_keys", Len(output))

(***************************************************************************)
(* C15  Order-insensitive encoding.  Two values of the accepted records    *)
(* that are equal up to the key order of their mappings have the same      *)
(* canonical encoding and fingerprint; records whose merge keys are equal  *)
(* up to key order are exported as one record, and field values equal up   *)
(* to key order appear once in the exported field.                         *)
(***************************************************************************)
\* The merge key value and the field values of a document.
ValuesOf(doc) == {doc.v[j][2] : j \in 1..Len(doc.v)}

\* The exported records whose merge key equals the key, up to key order.
RecordsOf(merge_key_value) ==
    {i \in 1..Len(output) : PyEq(GetKey(output[i], merge_key_field), merge_key_value)}

C15_OrderInsensitiveEncoding ==
    /\ \A a, b \in AcceptedDocs : \A v \in ValuesOf(a), w \in ValuesOf(b) :
          PyEq(v, w) => /\ serialize_value(v) = serialize_value(w)
                        /\ hash_value(v) = hash_value(w)
    /\ Exported => \A a \in AcceptedDocs :
          /\ Cardinality(RecordsOf(GetKey(a, merge_key_field))) = 1
          /\ \A i \in RecordsOf(GetKey(a, merge_key_field)) :
             \A f \in FieldNames(a) : \A v \in Members(GetKey(a, f)) :
                /\ HasKey(output[i], f)
                /\ LET out == GetKey(output[i], f)
                   IN  IF out.t = "arr" /\ Cardinality(ValueSet(KeyText(a), f)) # 1
                       THEN Cardinality({n \in 1..Len(out.v) : PyEq(out.v[n], v)}) = 1
                       ELSE PyEq(out, v)

\* Keys {"a":1,"b":2} and {"b":2,"a":1} are exported as one record with the
\* fields of both; field values that differ in key order alone give one value.
C15_Witness ==
    /\ pc = "done"
    /\ \/ /\ input = <<JsonLine(DocO1), JsonLine(DocO2)>>
          /\ Len(output) = 1
          /\ HasKey(output[1], fName) /\ HasKey(output[1], fRole)
       \/ /\ input = <<JsonLine(DocF1), JsonLine(DocF2)>>
          /\ Len(output) = 1
          /\ GetKey(output[1], fRole).t = "obj"

(***************************************************************************)
(* C16  Deduplication by canonical encoding.  After the final flush the    *)
(* store holds, for every put of an accepted record, exactly one row with  *)
(* the key, field and encoding of the put: equal encodings are collapsed   *)
(* and different encodings are both retained, equal fingerprints or not.   *)
(***************************************************************************)
\* The puts of the accepted lines read so far, in the order they were made.
RECURSIVE PutsFrom(_)
PutsFrom(n) ==
    IF n > Len(input) THEN <<>>
    ELSE (IF AcceptedLine(input[n])
          THEN DocEntries(input[n].doc, KeyText(input[n].doc), 1)
          ELSE <<>>) \o PutsFrom(n + 1)

\* The rows of the store with the key, the field and column c of a put.
RowsLike(put, c) ==
    {i \in 1..Len(field_values) :
        /\ field_values[i][1] = put[1]
        /\ field_values[i][2] = put[2]
        /\ field_values[i][c] = put[c]}

C16_DedupByEncoding ==
    pc = "export" => \A p \in Range(PutsFrom(1)) : Cardinality(RowsLike(p, 4)) = 1

(***************************************************************************)
(* C16, as amended.  Deduplication is by fingerprint.  After the final     *)
(* flush the store holds, for every put of an accepted record, exactly one *)
(* row with the key, field and fingerprint of the put, and every row comes *)
(* from a put: two puts under one (key, field) are collapsed if and only   *)
(* if their fingerprints are equal.  Equal encodings have equal            *)
(* fingerprints and are collapsed; of different encodings with equal       *)
(* fingerprints the row holds the one that was put first.                  *)
(***************************************************************************)
C16_DedupByFingerprint ==
    pc = "export" =>
        LET puts == PutsFrom(1)
        IN  /\ \A n \in 1..Len(puts) :
                  /\ Cardinality(RowsLike(puts[n], 3)) = 1
                  /\ \A i \in RowsLike(puts[n], 3) :
                        LET first == CHOOSE m \in 1..Len(puts) :
                                        /\ puts[m][1] = puts[n][1]
                                        /\ puts[m][2] = puts[n][2]
                                        /\ puts[m][3] = puts[n][3]
                                        /\ \A k \in 1..(m - 1) :
                                              ~(/\ puts[k][1] = puts[n][1]
                                                /\ puts[k][2] = puts[n][2]
                                                /\ puts[k][3] = puts[n][3])
                        IN  field_values[i] = puts[first]
                  /\ \A m \in 1..Len(puts) :
                        puts[m][4] = puts[n][4] => puts[m][3] = puts[n][3]
            /\ \A i \in 1..Len(field_values) : field_values[i] \in Range(puts)

\* Two role values of key A with different encodings and one fingerprint:
\* the store holds the first alone.
C16_Witness ==
    /\ pc = "export"
    /\ input = <<JsonLine(DocC2), JsonLine(DocC1)>>
    /\ hash_value(JStr(sAaob)) = hash_value(JStr(sIbaa))
    /\ Len(field_values) = 1
    /\ field_values[1][4] = serialize_value(JStr(sIbaa))

(***************************************************************************)
(* C17  Merged record completeness.  The exported record of a merge key    *)
(* has, besides the merge key field, exactly the field names of the        *)
(* accepted records with that key, a field whose only value is an empty    *)
(* list included.                                                          *)
(***************************************************************************)
C17_MergedRecordCompleteness ==
    Exported => \A i \in 1..Len(output) :
        FieldNames(output[i])
          = UNION {FieldNames(a) :
                      a \in {d \in AcceptedDocs :
                                KeyText(d) = serialize_value(GetKey(output[i], merge_key_field))}}

(***************************************************************************)
(* C18  Input-order independence.  The output of a completed run equals    *)
(* the output of the run on every permutation of its input lines: the same *)
(* records in the same order, with the same field order and the same order *)
(* of the values in each list.                                             *)
(***************************************************************************)
\* The permutations of 1..n, as functions.
Rearrangements(n) ==
    {p \in [1..n -> 1..n] : \A i, j \in 1..n : p[i] = p[j] => i = j}

Reread(records) ==
    [i \in 1..Len(records) |-> JsonLine(deserialize_value(json_dump(records[i])))]

C19_RepeatedMergeIdempotence ==
    Exported => stream_merge_jsonl_optimized(Reread(output), batch_size) = output

(***************************************************************************)
(* C20  Export is read-only.  The export step leaves the merge key         *)
(* registry and the field store as they were, so an export of the stores   *)
(* after it gives the same records in the same order.                      *)
(***************************************************************************)
C20_ExportReadOnly ==
    [][(pc = "export" /\ pc' = "cleanup") =>
          /\ UNCHANGED <<merge_keys, field_values>>
          /\ export_merged_data(merge_keys', field_values') = output']_vars

\* After an export of two keys the stores still hold their rows.
C20_Witness ==
    /\ pc = "cleanup"
    /\ Len(output) = 2
    /\ Len(merge_keys) = 2
    /\ field_values # <<>>
    /\ export_merged_data(merge_keys, field_values) = output

(***************************************************************************)
(* C21  Orderly release on interrupt.  After an interrupt during ingest,   *)
(* flush or export the run does nothing but end: it reaches the exit with  *)
(* status 1, and there the input and output files are not open, the        *)
(* connection is closed and the temp database is removed.                  *)
(***************************************************************************)
\* The handler of KeyboardInterrupt has run.
Interrupted == \E i \in 1..Len(diag) : diag[i][1] = "cancelled"

\* No file is open, the connection is closed, the temp database is gone.
Released ==
    /\ input_stream # "open"
    /\ output_stream # "open"
    /\ conn = "closed"
    /\ ~tmp_db

C21_OrderlyReleaseOnInterrupt ==
    /\ [](Interrupted => pc \in {"error", "failed"})
    /\ []((Interrupted /\ pc = "failed") => Released)
    /\ Interrupted ~> (pc = "failed" /\ Released)

\* An interrupt inside the export, after one record: the output file was
\* open and is closed at the exit.
C21_Witness ==
    /\ pc = "failed"
    /\ Interrupted
    /\ Len(output) = 1
    /\ output_stream = "closed"
    /\ Released

(***************************************************************************)
(* C22  Storage failure is fatal and clean.  After a registry write or a   *)
(* batch flush has failed the run reads no further line and writes no      *)
(* record: the output file is never opened, the run reaches the exit with  *)
(* status 1, and there the temp database is removed.                       *)
(***************************************************************************)
\* The handler of Exception has run.
StorageFailed == \E i \in 1..Len(diag) : diag[i][1] = "error"

C22_StorageFailureFatal ==
    /\ [][StorageFailed => UNCHANGED <<input, output>>]_vars
    /\ [](StorageFailed =>
             /\ pc \in {"error", "failed"}
             /\ output = <<>>
             /\ output_stream = "None")
    /\ []((StorageFailed /\ pc = "failed") =>
             /\ ~tmp_db
             /\ conn = "closed"
             /\ merge_keys = <<>>
             /\ field_values = <<>>)
    /\ StorageFailed ~> (pc = "failed")

\* The flush of the second record failed: the run ended with status 1.
C22_Witness ==
    /\ pc = "failed"
    /\ StorageFailed
    /\ Len(input) = 2
    /\ processed_lines = 1
    /\ batch_data # <<>>
    /\ output = <<>>
    /\ ~tmp_db

(***************************************************************************)
(* C23  Fresh scratch store.  The step that opens the temp database leaves *)
(* both tables empty although the database of an earlier run existed, and  *)
(* every key, field and value of the output comes from an accepted record  *)
(* of this run.                                                            *)
(***************************************************************************)
C23_FreshScratchStore ==
    /\ [][pc = "start" =>
             /\ pc' = "ingest"
             /\ merge_keys' = <<>>
             /\ field_values' = <<>>]_vars
    /\ [](Exported => \A i \in 1..Len(output) :
             LET key == serialize_value(GetKey(output[i], merge_key_field))
             IN  /\ \E a \in AcceptedDocs : KeyText(a) = key
                 /\ \A f \in FieldNames(output[i]) :
                       Collapsed(GetKey(output[i], f), ValueSet(key, f)))

\* The earlier run left name Eve under key B; this run exports the record of
\* key B with name Bob alone.
C23_Witness ==
    /\ pc = "cleanup"
    /\ input = <<JsonLine(DocB)>>
    /\ output = <<DocB>>
    /\ StaleValues # <<>>

(***************************************************************************)
(* C24  Referential integrity of the store.  While the connection is open, *)
(* every merge key of an entry of the batch buffer or of a row of the      *)
(* field store is the merge key of a row of the registry; and after the    *)
(* export every row of the field store is in the record of its key.        *)
(***************************************************************************)
\* The merge keys of the registry.
RegisteredKeys == {merge_keys[i][1] : i \in 1..Len(merge_keys)}

C24_ReferentialIntegrity ==
    /\ conn = "open" =>
          /\ \A i \in 1..Len(batch_data) : batch_data[i][1] \in RegisteredKeys
          /\ \A i \in 1..Len(field_values) : field_values[i][1] \in RegisteredKeys
    /\ (pc = "cleanup" /\ conn = "open") =>
          \A r \in 1..Len(field_values) :
             \E i \in 1..Len(output) :
                /\ serialize_value(GetKey(output[i], merge_key_field)) = field_values[r][1]
                /\ HasKey(output[i], field_values[r][2])
                /\ LET value == GetKey(output[i], field_values[r][2])
                   IN  \/ serialize_value(value) = field_values[r][4]
                       \/ /\ value.t = "arr"
                          /\ \E n \in 1..Len(value.v) :
                                serialize_value(value.v[n]) = field_values[r][4]

\* A key that is an object and a key that is a string, with rows in the
\* store and entries in the buffer.
C24_Witness ==
    /\ pc = "ingest"
    /\ Len(merge_keys) = 2
    /\ field_values # <<>>
    /\ batch_data # <<>>
    /\ \E i \in 1..Len(field_values) : field_values[i][1] = KeyText(DocO2)

(***************************************************************************)
(* C25  Batch-size independence.  The output of a run equals the output of *)
(* the run on the same input with every other batch size, from 1 up to a   *)
(* size that no buffer of the run reaches.                                 *)
(***************************************************************************)
\* The batch sizes compared; a record of the model makes at most two puts.
BatchSizes == 1..(2 * MaxLines + 1)

C25_BatchSizeIndependence ==
    Exported => \A b \in BatchSizes :
        stream_merge_jsonl_optimized(input, b) = output

\* A run that flushed after every record and a run that flushed at the end
\* alone write the same two roles of key A.
C25_Witness ==
    /\ pc = "done"
    /\ batch_size = 1
    /\ batch_peak > batch_size
    /\ input = <<JsonLine(DocA1), JsonLine(DocA2)>>
    /\ output = stream_merge_jsonl_optimized(input, 2 * MaxLines + 1)
    /\ GetKey(output[1], fRole) = JArr(<<JStr(sAdmin), JStr(sEditor)>>)

(***************************************************************************)
(* C26  Bounded retry in the CVE collector.  No start index is requested   *)
(* more than MAX_RETRIES + 1 times; the start index changes only by        *)
(* PAGE_MAX, in the step of an attempt that wrote its whole page and       *)
(* counted no retry; and the step that gives up comes after MAX_RETRIES +  *)
(* 1 requests of the start index and leaves it as it is.                   *)
(***************************************************************************)
\* The number of requests made with the start index.
Attempts(start) ==
    Cardinality({i \in 1..Len(request_log) : request_log[i] = start})

C26_BoundedRetry ==
    /\ [](\A i \in 1..Len(request_log) : Attempts(request_log[i]) <= MAX_RETRIES + 1)
    /\ [][offset' # offset =>
             /\ offset' = offset + PAGE_MAX
             /\ request_log' = Append(request_log, offset)
             /\ retries' = retries
             /\ nvd_pc = "attempt" /\ nvd_pc' = "page"
             /\ \/ file' = file
                \/ /\ file' = Append(file, file'[Len(file')])
                   /\ file'[Len(file')][1] = offset]_vars
    /\ [][(nvd_pc = "attempt" /\ nvd_pc' = "done") =>
             /\ offset' = offset
             /\ Attempts(offset) = MAX_RETRIES + 1]_vars

\* The second page failed six times: the collection ended at its start index.
C26_Witness ==
    /\ nvd_pc = "done"
    /\ more_data
    /\ offset = PAGE_MAX
    /\ Attempts(0) = 1
    /\ Attempts(PAGE_MAX) = MAX_RETRIES + 1

(***************************************************************************)
(* C27  No duplicate page output in the CVE collector.  No record is in    *)
(* two chunks of the output file.                                          *)
(***************************************************************************)
C27_NoDuplicatePageOutput ==
    \A i, j \in 1..Len(file) :
        i < j => (file[i][2] < file[j][1] \/ file[j][2] < file[i][1])

====
